---- MODULE Spec2Model ----
(***************************************************************************)
(* State-machine model of src/models/gnn/backbone.py: the GNNBackbone      *)
(* module (constructor, lazy layer build, input adaptation, forward) and   *)
(* the edge-feature normalizer _edge_weight_from_attr.                     *)
(*                                                                         *)
(* Python values are encoded as follows.                                   *)
(*   Optional value : None is <<>>, a present value v is <<v>>.            *)
(*   Number         : an exact rational <<n, d>> in lowest terms, d > 0.   *)
(*   Tensor         : [ndim, dtype, width, rows]; rows has one entry per   *)
(*                    edge, each entry the sequence of that edge's width   *)
(*                    columns (a 1-D tensor of shape [E] has width 1).     *)
(*   Layer object   : [cls, in_dim, out_dim, edge_dim, gen]; gen is the    *)
(*                    number of the _build_layers run that created it, so  *)
(*                    two builds never yield the same objects.             *)
(***************************************************************************)
EXTENDS Integers, Sequences, FiniteSets, TLC

\* ---- bounds of the model ----
MaxCalls == 3
MaxEdges == 2
MaxWidth == 2

\* ---- optional values ----
None == <<>>
Some(v) == <<v>>
IsNone(o) == o = <<>>
Get(o) == o[1]

\* ---- exact rational arithmetic for tensor elements ----
RECURSIVE Gcd(_, _)
Gcd(a, b) == IF b = 0 THEN a ELSE Gcd(b, a % b)

Abs(n) == IF n < 0 THEN -n ELSE n

Rat(n, d) ==
    LET s == IF d < 0 THEN -1 ELSE 1
        g == Gcd(Abs(n), Abs(d))
    IN  IF n = 0 THEN <<0, 1>> ELSE <<(s * n) \div g, (s * d) \div g>>

R(i) == <<i, 1>>
RAdd(a, b) == Rat(a[1] * b[2] + b[1] * a[2], a[2] * b[2])
RSub(a, b) == Rat(a[1] * b[2] - b[1] * a[2], a[2] * b[2])
RDiv(a, b) == Rat(a[1] * b[2], a[2] * b[1])
RLess(a, b) == a[1] * b[2] < b[1] * a[2]
RMax(a, b) == IF RLess(a, b) THEN b ELSE a
RMin(a, b) == IF RLess(b, a) THEN b ELSE a

\* eps = 1e-8 (backbone.py line 23)
EpsDen == 100000000
eps == <<1, EpsDen>>

\* ---- tensors ----
Tensor(nd, dt, wd, rws) == [ndim |-> nd, dtype |-> dt, width |-> wd, rows |-> rws]
\* size(-1): the last dimension of the tensor
LastSize(t) == IF t.ndim = 1 THEN Len(t.rows) ELSE t.width
\* a 1-D tensor of shape [E] from its elements
Vec(dt, vals) == Tensor(1, dt, 1, [i \in 1..Len(vals) |-> <<vals[i]>>])
\* the elements of a one-column tensor, in edge order
Elems(t) == [i \in 1..Len(t.rows) |-> t.rows[i][1]]

RECURSIVE SumSeq(_)
SumSeq(s) == IF s = <<>> THEN R(0) ELSE RAdd(s[1], SumSeq(Tail(s)))

RECURSIVE MaxSeq(_)
MaxSeq(s) == IF Len(s) = 1 THEN s[1] ELSE RMax(s[1], MaxSeq(Tail(s)))

RECURSIVE MinSeq(_)
MinSeq(s) == IF Len(s) = 1 THEN s[1] ELSE RMin(s[1], MinSeq(Tail(s)))

\* the clamp of line 44 is missing
ClampNone(vals) == vals

\* torch.clamp(w, min=0.0), elementwise
Clamp0(vals) == [i \in 1..Len(vals) |-> IF RLess(vals[i], R(0)) THEN R(0) ELSE vals[i]]

\* every row is given the mean over the whole tensor
RowMeansOverEdges(t) ==
    [i \in 1..Len(t.rows) |->
        RDiv(SumSeq([k \in 1..Len(t.rows) |-> SumSeq(t.rows[k])]), R(t.width * Len(t.rows)))]

\* the row-wise sum instead of the mean
RowSums(t) == [i \in 1..Len(t.rows) |-> SumSeq(t.rows[i])]

\* row-wise mean over the last axis
RowMeans(t) == [i \in 1..Len(t.rows) |-> RDiv(SumSeq(t.rows[i]), R(t.width))]

\* ---- _edge_weight_from_attr (backbone.py lines 14-44) ----
\* The result is [raised, w]: raised is TRUE when the function throws
\* (mean() of an integer tensor, min() of an empty tensor), and w is then
\* meaningless.  Any mode other than first_inv and mean_inv takes the last
\* branch.
Raises == [raised |-> TRUE, w |-> Vec("float", <<>>)]
Returns(dt, vals) == [raised |-> FALSE, w |-> Vec(dt, Clamp0(vals))]

\* the degenerate range gives zeros instead of ones
AutoWeightsZeros(m) ==
    LET m_min == MinSeq(m)
        m_max == MaxSeq(m)
    IN  IF RLess(eps, RSub(m_max, m_min))
        THEN [i \in 1..Len(m) |->
                 RSub(R(1), RDiv(RSub(m[i], m_min), RAdd(RSub(m_max, m_min), eps)))]
        ELSE [i \in 1..Len(m) |-> R(0)]

AutoWeights(m) ==
    LET m_min == MinSeq(m)
        m_max == MaxSeq(m)
    IN  IF RLess(eps, RSub(m_max, m_min))
        THEN [i \in 1..Len(m) |->
                 RSub(R(1), RDiv(RSub(m[i], m_min), RAdd(RSub(m_max, m_min), eps)))]
        ELSE [i \in 1..Len(m) |-> R(1)]

edge_weight_from_attr(edge_attr, mode) ==
    IF edge_attr.ndim = 1 THEN Returns(edge_attr.dtype, Elems(edge_attr))
    ELSE IF LastSize(edge_attr) = 1 THEN Returns(edge_attr.dtype, Elems(edge_attr))
    ELSE IF mode = "first_inv"
         THEN Returns("float", [i \in 1..Len(edge_attr.rows) |->
                                  RDiv(R(1), RAdd(edge_attr.rows[i][1], eps))])
    ELSE IF mode = "mean_inv"
         THEN IF edge_attr.dtype # "float" THEN Raises
              ELSE Returns("float", [i \in 1..Len(edge_attr.rows) |->
                                       RDiv(R(1), RAdd(RowMeans(edge_attr)[i], eps))])
    ELSE IF edge_attr.dtype # "float" \/ Len(edge_attr.rows) = 0 THEN Raises
         ELSE Returns("float", AutoWeights(RowMeans(edge_attr)))


\* ---- inputs ----
\* conv_type arguments: the six supported kinds, one in upper case and one
\* unsupported name.
ConvTypeArgs == {"gcn", "gat", "gatv2", "sage", "gin", "gine", "GINE", "foo"}
\* str.lower() on the arguments above
Lower(str) == IF str = "GINE" THEN "gine" ELSE str

\* hidden_dims argument (None when not given) and the legacy dims= keyword
HiddenArgs == {None, Some(<<>>), Some(<<MaxWidth>>), Some(<<1, MaxWidth>>)}
LegacyArgs == {None, Some(<<MaxWidth>>)}
OutDims == {2}
EdgeModes == {"auto", "mean_inv", "first_inv"}
MissingPolicies == {"error", "zeros"}
\* the keyword arguments a caller may pass: the documented values and one
\* that is not documented
EdgeModeArgs == EdgeModes \cup {"max_inv"}
MissingPolicyArgs == MissingPolicies \cup {"ones"}

\* The keyword a caller sets is the one its operator reads: gcn_edge_mode is
\* left at its default "auto" unless the kind is gcn, and
\* gine_missing_edge_policy at its default "error" unless the kind is gine.
RelevantOptions(ct, em, mp) ==
    /\ em # "auto" => Lower(ct) = "gcn"
    /\ mp # "error" => Lower(ct) = "gine"

\* A tensor of the given shape whose element (i, j) is i + j - 1: it differs
\* from edge to edge and from column to column.
Iota(nd, dt, wd, e) == Tensor(nd, dt, wd, [i \in 1..e |-> [j \in 1..wd |-> R(i + j - 1)]])

\* the edge_attr fields a batch with e edges may carry: none, [E] of either
\* dtype, float [E,D] for every width D, and an integer [E,D] of the largest D
EdgeAttrs(e) ==
    {None}
    \cup {Some(Iota(1, dt, 1, e)) : dt \in {"float", "int"}}
    \cup {Some(Iota(2, "float", wd, e)) : wd \in 1..MaxWidth}
    \cup {Some(Iota(2, "int", MaxWidth, e))}

\* the explicit edge_weight fields a batch with e edges may carry
EdgeWeights(e) == {None, Some(Vec("float", [i \in 1..e |-> R(2 * i + 1)]))}

\* Graph batches: a path graph of e edges on n = e + 1 nodes of feature width
\* x_w, with optional edge_attr, optional edge_weight, the field edge_v
\* present or not, and no graph-assignment index (the field batch).
Batches ==
    UNION {
        {[n |-> e + 1, x_w |-> xw, e |-> e, edge_attr |-> ea, edge_weight |-> ew, edge_v |-> ev, batch |-> None] :
            xw \in 1..MaxWidth, ea \in EdgeAttrs(e), ew \in EdgeWeights(e), ev \in BOOLEAN}
        : e \in 0..MaxEdges}

\* The graph-assignment indexes a batch of n nodes may carry: the nodes of
\* graph 0 first, then those of graph 1, and so on, every graph non-empty.
BatchIndexes(n) ==
    {Some(idx) : idx \in {f \in [1..n -> 0..(n - 1)] :
                              /\ f[1] = 0
                              /\ \A i \in 1..(n - 1) : f[i + 1] \in {f[i], f[i] + 1}}}

\* Batches of several graphs: n nodes, e = n - 1 edges, a float edge feature
\* of shape [E,1] or none, and a graph-assignment index or none.
ShapeBatches ==
    UNION {
        {[n |-> n, x_w |-> xw, e |-> n - 1, edge_attr |-> ea, edge_weight |-> None, edge_v |-> FALSE, batch |-> b] :
            xw \in 1..MaxWidth, ea \in {None, Some(Iota(2, "float", 1, n - 1))},
            b \in {None} \cup BatchIndexes(n)}
        : n \in 1..(MaxEdges + 1)}

\* ---- state ----
VARIABLES
    pc,        \* "new" before __init__, "failed" if it raised, "idle" between calls,
               \* "returned" when a forward call has just returned or raised
    self,      \* the attributes of the GNNBackbone instance
    last,      \* what the call that just ended received, did and returned
    ncalls,    \* number of forward calls made
    nbuild,    \* number of _build_layers runs started
    emitted,   \* per notice category, how often warnings.warn was called for it
    nassign,   \* number of assignments to self.convs (line 132)
    tpc,       \* per thread, the line of forward it is about to execute
    tloc,      \* per thread, the local variables of its forward call
               \* (both empty when forward is called from one thread only)
    norm       \* the calls of _edge_weight_from_attr made on their own: the
               \* arguments and the result of each (empty otherwise)

vars == <<pc, self, last, ncalls, nbuild, emitted, nassign, tpc, tloc, norm>>

\* the threads that call forward concurrently
NumThreads == 2
Threads == 1..NumThreads

Notices == {"edge_v_ignored", "edge_attr_ignored", "edge_weight_failed"}

NoBatch == [n |-> 0, x_w |-> 0, e |-> 0, edge_attr |-> None, edge_weight |-> None, edge_v |-> FALSE, batch |-> None]

\* the record of a call before anything happened in it
NoCall ==
    [op |-> "none", outcome |-> "none", data |-> NoBatch,
     build_ran |-> FALSE, normalizer_ran |-> FALSE,
     notices |-> {}, conds |-> {},
     layer_inputs |-> <<>>, n_outs |-> 0, cat_w |-> 0, out |-> None]

\* the locals of a forward call that has not started
NoLocals ==
    [data |-> NoBatch, edge_attr |-> None, edge_weight |-> None,
     in_dim |-> 0, edge_dim |-> None, build_ran |-> FALSE, gen |-> 0,
     convs |-> None, readout |-> None, n_outs |-> 0, outcome |-> "none"]

Unconstructed ==
    [conv_type |-> "", hidden_dims |-> <<>>, out_dim |-> 0, residue_logits |-> FALSE,
     gcn_edge_mode |-> "", gine_missing_edge_policy |-> "",
     built |-> FALSE, edge_dim |-> None,
     warned_edge_ignored |-> FALSE, warned_edge_v_ignored |-> FALSE,
     convs |-> None, readout |-> None]

Init ==
    /\ pc = "new"
    /\ self = Unconstructed
    /\ last = NoCall
    /\ ncalls = 0
    /\ nbuild = 0
    /\ emitted = [c \in Notices |-> 0]
    /\ nassign = 0
    /\ tpc = <<>>
    /\ tloc = <<>>
    /\ norm = <<>>

\* ---- GNNBackbone.__init__ (lines 63-98) ----
\* The result is [raised, warned, self]: warned tells whether the dims=
\* deprecation warning was issued.
InitResult(conv_type, hidden_dims, out_dim, residue_logits, gcn_edge_mode, gine_missing_edge_policy, legacy_dims) ==
    LET use_legacy == IsNone(hidden_dims) /\ ~IsNone(legacy_dims)
        hd == IF use_legacy THEN legacy_dims ELSE hidden_dims
    IN  IF IsNone(hd)
        THEN [raised |-> TRUE, warned |-> use_legacy, self |-> Unconstructed]
        ELSE [raised |-> FALSE, warned |-> use_legacy,
              self |-> [conv_type |-> Lower(conv_type),
                        hidden_dims |-> Get(hd),
                        out_dim |-> out_dim,
                        residue_logits |-> residue_logits,
                        gcn_edge_mode |-> gcn_edge_mode,
                        gine_missing_edge_policy |-> gine_missing_edge_policy,
                        built |-> FALSE, edge_dim |-> None,
                        warned_edge_ignored |-> FALSE,
                        warned_edge_v_ignored |-> FALSE,
                        convs |-> None, readout |-> None]]

Construct ==
    /\ pc = "new"
    /\ \E ct \in ConvTypeArgs, hd \in HiddenArgs, od \in OutDims, rl \in BOOLEAN,
          em \in EdgeModeArgs, mp \in MissingPolicyArgs, lg \in LegacyArgs :
          /\ RelevantOptions(ct, em, mp)
          /\ LET r == InitResult(ct, hd, od, rl, em, mp, lg)
             IN  /\ pc' = IF r.raised THEN "failed" ELSE "idle"
                 /\ self' = r.self
                 /\ last' = [NoCall EXCEPT !.op = "init",
                                           !.outcome = IF r.raised THEN "ValueError" ELSE "ok",
                                           !.notices = IF r.warned THEN {"dims_deprecated"} ELSE {}]
    /\ UNCHANGED <<ncalls, nbuild, emitted, nassign, tpc, tloc, norm>>


\* ---- GNNBackbone._make_conv (lines 101-124) ----
\* The result is [raised, layer].  gen identifies the build that made the layer.
ConvClass(ct) ==
    CASE ct = "gcn"   -> "GCNConv"
      [] ct = "gat"   -> "GATConv"
      [] ct = "gatv2" -> "GATv2Conv"
      [] ct = "sage"  -> "SAGEConv"
      [] ct = "gin"   -> "GINConv"
      [] ct = "gine"  -> "GINEConv"
      [] OTHER        -> "unsupported"

Layer(cls, in_dim, out_dim, edge_dim, gen) ==
    [cls |-> cls, in_dim |-> in_dim, out_dim |-> out_dim, edge_dim |-> edge_dim, gen |-> gen]

make_conv(ct, in_dim, out_dim, edge_dim, gen) ==
    IF ct \in {"gcn", "gat", "gatv2", "sage", "gin"}
    THEN [raised |-> FALSE, layer |-> Layer(ConvClass(ct), in_dim, out_dim, None, gen)]
    ELSE IF ct = "gine" /\ ~IsNone(edge_dim)
    THEN [raised |-> FALSE, layer |-> Layer(ConvClass(ct), in_dim, out_dim, edge_dim, gen)]
    ELSE [raised |-> TRUE, layer |-> Layer("unsupported", in_dim, out_dim, None, gen)]

\* ---- GNNBackbone._build_layers (lines 126-138) ----
\* The loop of lines 128-131: the layers made for hidden_dims[i..], the first
\* taking width prev.  raised tells that a _make_conv call threw.
RECURSIVE MakeLayers(_, _, _, _, _, _)
MakeLayers(ct, hidden, i, prev, edge_dim, gen) ==
    IF i > Len(hidden) THEN [raised |-> FALSE, layers |-> <<>>]
    ELSE LET c == make_conv(ct, prev, hidden[i], IF ct = "gine" THEN edge_dim ELSE None, gen)
             rest == MakeLayers(ct, hidden, i + 1, hidden[i], edge_dim, gen)
         IN  IF c.raised \/ rest.raised THEN [raised |-> TRUE, layers |-> <<>>]
             ELSE [raised |-> FALSE, layers |-> <<c.layer>> \o rest.layers]

RECURSIVE SumInts(_)
SumInts(q) == IF q = <<>> THEN 0 ELSE q[1] + SumInts(Tail(q))

\* the readout takes the number of layers instead of the sum of their widths
ReadoutOfCount(s, gen) ==
    [in_features |-> Len(s.hidden_dims), out_features |-> s.out_dim, gen |-> gen]

Readout(s, gen) ==
    [in_features |-> SumInts(s.hidden_dims), out_features |-> s.out_dim, gen |-> gen]

\* the assignment of self._edge_dim (line 137) is missing
build_layers_no_edge_dim(s, in_dim, edge_dim, gen) ==
    LET m == MakeLayers(s.conv_type, s.hidden_dims, 1, in_dim, edge_dim, gen)
    IN  IF m.raised THEN [raised |-> TRUE, self |-> s]
        ELSE [raised |-> FALSE,
              self |-> [s EXCEPT !.convs = Some(m.layers),
                                 !.readout = Some(Readout(s, gen)),
                                 !.built = TRUE]]

\* The result is [raised, self]: when a layer constructor throws, no attribute
\* of the instance has been assigned.
build_layers(s, in_dim, edge_dim, gen) ==
    LET m == MakeLayers(s.conv_type, s.hidden_dims, 1, in_dim, edge_dim, gen)
    IN  IF m.raised THEN [raised |-> TRUE, self |-> s]
        ELSE [raised |-> FALSE,
              self |-> [s EXCEPT !.convs = Some(m.layers),
                                 !.readout = Some(Readout(s, gen)),
                                 !.edge_dim = edge_dim,
                                 !.built = TRUE]]

\* ---- GNNBackbone._prepare_inputs (lines 141-198) ----
\* ew.float() of lines 170-171
Float(t) == [t EXCEPT !.dtype = "float"]

\* the flag is tested but never set
FlagNeverSet(flag, cond) == flag

\* A warning flag after the guarded warn-and-set of lines 159-161, 174-176
\* and 181-183: set once its condition has been met.
FlagAfter(flag, cond) == flag \/ cond

\* the test "edge_weight is None" of line 167 is missing
DeriveWeightAlways(edge_weight, edge_attr, mode) ==
    IF ~IsNone(edge_attr)
    THEN LET nr == edge_weight_from_attr(Get(edge_attr), mode)
         IN  [ran |-> TRUE, failed |-> nr.raised,
              edge_weight |-> IF nr.raised THEN None ELSE Some(Float(nr.w))]
    ELSE [ran |-> FALSE, failed |-> FALSE, edge_weight |-> edge_weight]

\* Lines 166-177, the gcn branch: [ran, failed, edge_weight].  The normalizer
\* runs only when the batch has an edge_attr and no edge_weight; its exception
\* is caught and leaves no weight; its result is cast to float.
DeriveWeight(edge_weight, edge_attr, mode) ==
    IF IsNone(edge_weight) /\ ~IsNone(edge_attr)
    THEN LET nr == edge_weight_from_attr(Get(edge_attr), mode)
         IN  [ran |-> TRUE, failed |-> nr.raised,
              edge_weight |-> IF nr.raised THEN None ELSE Some(Float(nr.w))]
    ELSE [ran |-> FALSE, failed |-> FALSE, edge_weight |-> edge_weight]

NoDerive(edge_weight) == [ran |-> FALSE, failed |-> FALSE, edge_weight |-> edge_weight]

\* the check of lines 187-189 is missing
MissingEdgeNeverRaises(s, edge_attr) == FALSE

\* the check is made only while the instance is unbuilt
MissingEdgeRaisesUnbuilt(s, edge_attr) ==
    ~s.built /\ s.conv_type = "gine" /\ IsNone(edge_attr) /\ s.gine_missing_edge_policy # "zeros"

\* Lines 187-189: the gine check raises ValueError.
MissingEdgeRaises(s, edge_attr) ==
    s.conv_type = "gine" /\ IsNone(edge_attr) /\ s.gine_missing_edge_policy # "zeros"

\* The result holds the adapted edge_attr and edge_weight, the two warning
\* flags as the call leaves them, the notices it emitted, the notice
\* conditions it met, whether it invoked the normalizer and whether it raised
\* the ValueError of line 189.
prepare_inputs(s, data) ==
    LET ct == s.conv_type
        cond_v == data.edge_v
        d == IF ct = "gcn" THEN DeriveWeight(data.edge_weight, data.edge_attr, s.gcn_edge_mode)
             ELSE NoDerive(data.edge_weight)
        ignores == ct \in {"gat", "gatv2", "sage", "gin"}
        cond_ign == ignores /\ ~IsNone(data.edge_attr)
        edge_attr == IF ignores THEN None ELSE data.edge_attr
    IN  [edge_attr |-> edge_attr,
         edge_weight |-> d.edge_weight,
         warned_edge_v_ignored |-> FlagAfter(s.warned_edge_v_ignored, cond_v),
         warned_edge_ignored |-> FlagAfter(s.warned_edge_ignored, d.failed \/ cond_ign),
         notices |-> {c \in Notices :
                         \/ c = "edge_v_ignored" /\ cond_v /\ ~s.warned_edge_v_ignored
                         \/ c = "edge_weight_failed" /\ d.failed /\ ~s.warned_edge_ignored
                         \/ c = "edge_attr_ignored" /\ cond_ign /\ ~s.warned_edge_ignored},
         conds |-> {c \in Notices :
                         \/ c = "edge_v_ignored" /\ cond_v
                         \/ c = "edge_weight_failed" /\ d.failed
                         \/ c = "edge_attr_ignored" /\ cond_ign},
         normalizer_ran |-> d.ran,
         raised |-> MissingEdgeRaises(s, edge_attr)]

\* ---- GNNBackbone.forward (lines 201-246) ----
\* Lines 207-214: the edge width the build is given, [raised, edge_dim].
InferEdgeDim(s, edge_attr) ==
    IF s.conv_type # "gine" THEN [raised |-> FALSE, edge_dim |-> None]
    ELSE IF ~IsNone(edge_attr)
    THEN [raised |-> FALSE,
          edge_dim |-> Some(IF Get(edge_attr).ndim = 2 THEN LastSize(Get(edge_attr)) ELSE 1)]
    ELSE IF s.gine_missing_edge_policy = "zeros"
    THEN [raised |-> FALSE, edge_dim |-> Some(1)]
    ELSE [raised |-> TRUE, edge_dim |-> None]

\* self._edge_dim or 1
OrOne(o) == IF IsNone(o) THEN 1 ELSE IF Get(o) = 0 THEN 1 ELSE Get(o)

\* Lines 219-221: the edge feature the layers are given.
ZeroFill(s, edge_attr, e) ==
    IF s.conv_type = "gine" /\ IsNone(edge_attr) /\ s.gine_missing_edge_policy = "zeros"
    THEN Some(Tensor(2, "float", OrOne(s.edge_dim),
                     [i \in 1..e |-> [j \in 1..OrOne(s.edge_dim) |-> R(0)]]))
    ELSE edge_attr

\* Lines 227-232: what one layer is called with, by the layer's class.
LayerInput(layer, h_w, edge_attr, edge_weight) ==
    [layer |-> layer, x_w |-> h_w,
     edge_attr |-> IF layer.cls = "GINEConv" THEN edge_attr ELSE None,
     edge_weight |-> IF layer.cls = "GCNConv" THEN edge_weight ELSE None]

\* The convolution library's shape check: a layer accepts node features of
\* its input width and, for GINEConv, an edge feature whose last dimension is
\* the edge width the layer was built with; otherwise the call throws.
LayerAccepts(inp) ==
    /\ inp.x_w = inp.layer.in_dim
    /\ inp.layer.cls = "GINEConv" =>
          /\ ~IsNone(inp.edge_attr)
          /\ LastSize(Get(inp.edge_attr)) = Get(inp.layer.edge_dim)

\* Lines 224-235: the loop over self.convs from layer i on, with node width
\* h_w.  inputs lists what every invoked layer was called with, n_outs counts
\* the entries of outs, raised tells that a layer threw.
RECURSIVE RunLayers(_, _, _, _, _)
RunLayers(convs, i, h_w, edge_attr, edge_weight) ==
    IF i > Len(convs) THEN [raised |-> FALSE, inputs |-> <<>>, n_outs |-> 0]
    ELSE LET inp == LayerInput(convs[i], h_w, edge_attr, edge_weight)
             rest == RunLayers(convs, i + 1, convs[i].out_dim, edge_attr, edge_weight)
         IN  IF ~LayerAccepts(inp) THEN [raised |-> TRUE, inputs |-> <<inp>>, n_outs |-> 0]
             ELSE [raised |-> rest.raised, inputs |-> <<inp>> \o rest.inputs,
                   n_outs |-> 1 + rest.n_outs]

\* The record of a forward call: its batch, what _prepare_inputs did (p), its
\* outcome, whether it ran _build_layers, and the layer loop's result (run).
\* Outcomes: "ok"; "ValueError" (line 189); "RuntimeError" (line 214);
\* "BuildError" (_make_conv threw, lines 118, 124); "LayerError" (a layer
\* threw); "CatError" (torch.cat of an empty list, line 238); "ReadoutError"
\* (the readout given a width other than its in_features).  cat_w is the
\* width of h_cat and out the shape of the returned tensor, both set by a
\* call that got that far.
CallRecord(data, p, outcome, build_ran, run) ==
    [op |-> "forward", outcome |-> outcome, data |-> data,
     build_ran |-> build_ran, normalizer_ran |-> p.normalizer_ran,
     notices |-> p.notices, conds |-> p.conds,
     layer_inputs |-> run.inputs, n_outs |-> run.n_outs, cat_w |-> 0, out |-> None]

NoRun == [raised |-> FALSE, inputs |-> <<>>, n_outs |-> 0]

\* Line 238: the width of torch.cat(outs, dim=-1), every entry of outs
\* having the output width of the layer that made it.
RECURSIVE CatWidth(_)
CatWidth(inputs) ==
    IF inputs = <<>> THEN 0 ELSE inputs[1].layer.out_dim + CatWidth(Tail(inputs))

\* Lines 192-196: the graph-assignment index, all zeros when the batch has none.
BatchIndex(data) ==
    IF IsNone(data.batch) THEN [i \in 1..data.n |-> 0] ELSE Get(data.batch)

RECURSIVE MaxInt(_)
MaxInt(q) == IF Len(q) = 1 THEN q[1] ELSE IF q[1] > MaxInt(Tail(q)) THEN q[1] ELSE MaxInt(Tail(q))

\* Line 245: global_mean_pool returns one row per graph index 0..max(batch).
PoolRows(idx) == MaxInt(idx) + 1

\* the pooling of line 245 is skipped
OutputUnpooled(s, data) == <<data.n, Get(s.readout).out_features>>

\* Lines 241-246: the shape of the returned tensor, the readout mapping the
\* last dimension to its out_features.
Output(s, data) ==
    IF s.residue_logits THEN <<data.n, Get(s.readout).out_features>>
    ELSE <<PoolRows(BatchIndex(data)), Get(s.readout).out_features>>

\* Lines 238-246 after a layer loop that appended to outs.
Project(s, data, call, cat_w) ==
    IF cat_w # Get(s.readout).in_features
    THEN [call EXCEPT !.outcome = "ReadoutError", !.cat_w = cat_w]
    ELSE [call EXCEPT !.outcome = "ok", !.cat_w = cat_w, !.out = Some(Output(s, data))]

\* Lines 223-246 once the layer loop has run: torch.cat and the readout.
Finish(s, data, p, build_ran, run) ==
    [self |-> s,
     call |-> IF run.raised THEN CallRecord(data, p, "LayerError", build_ran, run)
              ELSE IF run.n_outs = 0 THEN CallRecord(data, p, "CatError", build_ran, run)
              ELSE Project(s, data, CallRecord(data, p, "ok", build_ran, run),
                           CatWidth(run.inputs))]

\* Lines 218-235 on the built instance s.
Execute(s, data, p, build_ran) ==
    Finish(s, data, p, build_ran,
           RunLayers(Get(s.convs), 1, data.x_w,
                     ZeroFill(s, p.edge_attr, data.e), p.edge_weight))

\* Line 215: b is the result of _build_layers.
AfterBuild(s, data, p, b) ==
    IF b.raised
    THEN [self |-> s, call |-> CallRecord(data, p, "BuildError", TRUE, NoRun)]
    ELSE Execute(b.self, data, p, TRUE)

\* Lines 205-216 on an unbuilt instance: inf is the inferred edge width.
LazyBuild(s, data, gen, p, inf) ==
    IF inf.raised
    THEN [self |-> s, call |-> CallRecord(data, p, "RuntimeError", FALSE, NoRun)]
    ELSE AfterBuild(s, data, p, build_layers(s, data.x_w, inf.edge_dim, gen))

\* Lines 202-246 after _prepare_inputs returned p (or raised) on instance s,
\* whose warning flags p has already updated.
AfterPrepare(s, data, gen, p) ==
    IF p.raised
    THEN [self |-> s, call |-> CallRecord(data, p, "ValueError", FALSE, NoRun)]
    ELSE IF s.built THEN Execute(s, data, p, FALSE)
    ELSE LazyBuild(s, data, gen, p, InferEdgeDim(s, p.edge_attr))

SetFlags(s, p) ==
    [s EXCEPT !.warned_edge_v_ignored = p.warned_edge_v_ignored,
              !.warned_edge_ignored = p.warned_edge_ignored]

\* One whole forward call on instance s with batch data; gen numbers the
\* build it may run.  The result is [self, call]: the instance after the call
\* and the record of the call.
WithPrepared(s, data, gen, p) == AfterPrepare(SetFlags(s, p), data, gen, p)

ForwardResult(s, data, gen) == WithPrepared(s, data, gen, prepare_inputs(s, data))

\* forward called with a batch of the given set
ForwardOn(batches) ==
    /\ pc = "idle"
    /\ ncalls < MaxCalls
    /\ \E data \in batches :
          LET r == ForwardResult(self, data, nbuild + 1)
          IN  /\ self' = r.self
              /\ last' = r.call
              /\ nbuild' = IF r.call.build_ran THEN nbuild + 1 ELSE nbuild
              /\ emitted' = [c \in Notices |->
                                IF c \in r.call.notices THEN emitted[c] + 1 ELSE emitted[c]]
    /\ ncalls' = ncalls + 1
    /\ pc' = "returned"
    /\ UNCHANGED <<nassign, tpc, tloc, norm>>

\* The caller takes the result or the exception of the call; the instance
\* is ready for the next call.
Return ==
    /\ pc = "returned"
    /\ pc' = "idle"
    /\ last' = NoCall
    /\ UNCHANGED <<self, ncalls, nbuild, emitted, nassign, tpc, tloc, norm>>

Forward == ForwardOn(Batches)

Next == Construct \/ Forward \/ Return

Spec == Init /\ [][Next]_vars

\* ---- forward on batches of several graphs ----
\* output widths an instance may be configured with
ShapeOutDims == 1..MaxWidth

\* the instances called: every supported kind, both output granularities
ShapeInstances ==
    {InitResult(ct, hd, od, rl, "auto", mp, None).self :
        ct \in {"gcn", "gat", "gatv2", "sage", "gin", "gine"},
        hd \in {Some(<<>>), Some(<<MaxWidth>>), Some(<<1, MaxWidth>>)},
        od \in ShapeOutDims, rl \in BOOLEAN, mp \in {"zeros"}}

InitShape ==
    /\ pc = "idle"
    /\ self \in ShapeInstances
    /\ last = NoCall
    /\ ncalls = 0
    /\ nbuild = 0
    /\ emitted = [c \in Notices |-> 0]
    /\ nassign = 0
    /\ tpc = <<>>
    /\ tloc = <<>>
    /\ norm = <<>>

ForwardShape == ForwardOn(ShapeBatches)

NextShape == ForwardShape \/ Return

SpecShape == InitShape /\ [][NextShape]_vars


\* ---- _edge_weight_from_attr called on its own ----
\* values of the elements of an edge feature: one negative, one positive
NormVals == {R(-1), R(2)}

\* float tensors of shape [e, wd] (ndim 2) or [e] (ndim 1) over NormVals
NormFloats(nd, wd, e) == {Tensor(nd, "float", wd, rws) : rws \in [1..e -> [1..wd -> NormVals]]}

\* The edge features the normalizer is called with: [E] of either dtype,
\* float [E,D] for every width D, and an integer [E,D] of the largest D,
\* for every number of edges E, none included.
NormTensors ==
    UNION {NormFloats(1, 1, e)
           \cup {[t EXCEPT !.dtype = "int"] : t \in NormFloats(1, 1, e)}
           \cup UNION {NormFloats(2, wd, e) : wd \in 1..MaxWidth}
           \cup {Iota(2, "int", MaxWidth, e)}
           : e \in 0..MaxEdges}

\* the mode arguments: the three documented ones and an undocumented one
NormModes == EdgeModeArgs

\* one call of the normalizer: its arguments and its result
NormCall(edge_attr, mode) ==
    [edge_attr |-> edge_attr, mode |-> mode, res |-> edge_weight_from_attr(edge_attr, mode)]

\* Two edge features of the same kind, b made from a by changing the row of
\* one edge while at least one other edge keeps its row, or by adding an
\* edge.  (Any two edge features that give an edge the same row are linked
\* by a chain of such steps that all keep that row.)
ShareRow(a, b) ==
    /\ a.ndim = b.ndim /\ a.dtype = b.dtype /\ a.width = b.width
    /\ \/ /\ Len(b.rows) = Len(a.rows) /\ Len(a.rows) >= 2
          /\ Cardinality({i \in 1..Len(a.rows) : a.rows[i] # b.rows[i]}) = 1
       \/ /\ Len(b.rows) = Len(a.rows) + 1 /\ Len(a.rows) >= 1
          /\ \A i \in 1..Len(a.rows) : a.rows[i] = b.rows[i]

InitNorm ==
    /\ pc = "none"
    /\ self = Unconstructed
    /\ last = NoCall
    /\ ncalls = 0
    /\ nbuild = 0
    /\ emitted = [c \in Notices |-> 0]
    /\ nassign = 0
    /\ tpc = <<>>
    /\ tloc = <<>>
    /\ norm = <<>>

\* a first call, on any edge feature in any mode
Normalize ==
    /\ norm = <<>>
    /\ \E a \in NormTensors, m \in NormModes : norm' = <<NormCall(a, m)>>
    /\ UNCHANGED <<pc, self, last, ncalls, nbuild, emitted, nassign, tpc, tloc>>

\* a second call in the same mode, on an edge feature that keeps the row of
\* some edge of the first call and changes or adds another edge
NormalizeAgain ==
    /\ Len(norm) = 1
    /\ \E b \in NormTensors :
          /\ ShareRow(norm[1].edge_attr, b)
          /\ norm' = Append(norm, NormCall(b, norm[1].mode))
    /\ UNCHANGED <<pc, self, last, ncalls, nbuild, emitted, nassign, tpc, tloc>>

NextNorm == Normalize \/ NormalizeAgain

SpecNorm == InitNorm /\ [][NextNorm]_vars


\* ---- forward called from several threads ----
\* The interpreter may switch threads between any two statements of forward
\* and _build_layers, which take no lock.  A thread's call is cut at every
\* read or write of an attribute the build assigns (_built, convs, readout,
\* _edge_dim); _prepare_inputs is taken as one step.

\* the instances the threads share: built lazily, two layers
ConcInstances ==
    {InitResult(ct, Some(<<1, MaxWidth>>), 2, FALSE, "auto", mp, None).self :
        ct \in {"gcn", "gat", "gine"}, mp \in MissingPolicies}

\* the batches the threads pass: one edge, float edge feature or none
ConcBatches ==
    {b \in Batches : /\ b.e = 1
                     /\ ~b.edge_v
                     /\ IsNone(b.edge_weight)
                     /\ IsNone(b.edge_attr) \/ Get(b.edge_attr).dtype = "float"}

InitConc ==
    /\ pc = "idle"
    /\ self \in ConcInstances
    /\ last = NoCall
    /\ ncalls = 0
    /\ nbuild = 0
    /\ emitted = [c \in Notices |-> 0]
    /\ nassign = 0
    /\ tpc = [t \in Threads |-> "idle"]
    /\ tloc = [t \in Threads |-> NoLocals]
    /\ norm = <<>>

Goto(t, label, loc) ==
    /\ tpc' = [tpc EXCEPT ![t] = label]
    /\ tloc' = [tloc EXCEPT ![t] = loc]

Exit(t, outcome, loc) == Goto(t, "done", [loc EXCEPT !.outcome = outcome])

\* line 202: _prepare_inputs
T_Prepare(t) ==
    /\ tpc[t] = "idle"
    /\ \E data \in ConcBatches :
          LET p == prepare_inputs(self, data)
              loc == [tloc[t] EXCEPT !.data = data, !.edge_attr = p.edge_attr,
                                     !.edge_weight = p.edge_weight]
          IN  /\ self' = SetFlags(self, p)
              /\ emitted' = [c \in Notices |->
                                IF c \in p.notices THEN emitted[c] + 1 ELSE emitted[c]]
              /\ IF p.raised THEN Exit(t, "ValueError", loc) ELSE Goto(t, "check", loc)
    /\ UNCHANGED <<pc, last, ncalls, nbuild, nassign, norm>>

\* lines 205-214: the test of self._built and the inference of the widths
T_Check(t) ==
    /\ tpc[t] = "check"
    /\ LET inf == InferEdgeDim(self, tloc[t].edge_attr)
           loc == [tloc[t] EXCEPT !.in_dim = tloc[t].data.x_w, !.edge_dim = inf.edge_dim]
       IN  IF self.built THEN Goto(t, "zeros", tloc[t])
           ELSE IF inf.raised THEN Exit(t, "RuntimeError", loc)
           ELSE Goto(t, "build", loc)
    /\ UNCHANGED <<pc, self, last, ncalls, nbuild, emitted, nassign, norm>>

\* lines 127-132: _build_layers makes the layers and assigns self.convs
T_BuildConvs(t) ==
    /\ tpc[t] = "build"
    /\ LET m == MakeLayers(self.conv_type, self.hidden_dims, 1, tloc[t].in_dim,
                           tloc[t].edge_dim, nbuild + 1)
           loc == [tloc[t] EXCEPT !.build_ran = TRUE, !.gen = nbuild + 1]
       IN  IF m.raised
           THEN /\ Exit(t, "BuildError", loc)
                /\ UNCHANGED <<self, nassign>>
           ELSE /\ self' = [self EXCEPT !.convs = Some(m.layers)]
                /\ nassign' = nassign + 1
                /\ Goto(t, "build_readout", loc)
    /\ nbuild' = nbuild + 1
    /\ UNCHANGED <<pc, last, ncalls, emitted, norm>>

\* lines 133-136: self.readout
T_BuildReadout(t) ==
    /\ tpc[t] = "build_readout"
    /\ self' = [self EXCEPT !.readout = Some(Readout(self, tloc[t].gen))]
    /\ Goto(t, "build_edge_dim", tloc[t])
    /\ UNCHANGED <<pc, last, ncalls, nbuild, emitted, nassign, norm>>

\* line 137: self._edge_dim
T_BuildEdgeDim(t) ==
    /\ tpc[t] = "build_edge_dim"
    /\ self' = [self EXCEPT !.edge_dim = tloc[t].edge_dim]
    /\ Goto(t, "build_flag", tloc[t])
    /\ UNCHANGED <<pc, last, ncalls, nbuild, emitted, nassign, norm>>

\* line 138: self._built = True
T_BuildFlag(t) ==
    /\ tpc[t] = "build_flag"
    /\ self' = [self EXCEPT !.built = TRUE]
    /\ Goto(t, "zeros", tloc[t])
    /\ UNCHANGED <<pc, last, ncalls, nbuild, emitted, nassign, norm>>

\* lines 219-221: the zero edge feature, of the width self._edge_dim holds now
T_Zeros(t) ==
    /\ tpc[t] = "zeros"
    /\ Goto(t, "loop", [tloc[t] EXCEPT
                           !.edge_attr = ZeroFill(self, tloc[t].edge_attr, tloc[t].data.e)])
    /\ UNCHANGED <<pc, self, last, ncalls, nbuild, emitted, nassign, norm>>

\* lines 224-238: the loop iterates the list self.convs holds at line 226
T_Loop(t) ==
    /\ tpc[t] = "loop"
    /\ LET run == RunLayers(Get(self.convs), 1, tloc[t].data.x_w,
                            tloc[t].edge_attr, tloc[t].edge_weight)
           loc == [tloc[t] EXCEPT !.convs = self.convs, !.n_outs = run.n_outs]
       IN  IF run.raised THEN Exit(t, "LayerError", loc)
           ELSE IF run.n_outs = 0 THEN Exit(t, "CatError", loc)
           ELSE Goto(t, "readout", loc)
    /\ UNCHANGED <<pc, self, last, ncalls, nbuild, emitted, nassign, norm>>

\* lines 241-246: the readout self.readout holds now
T_Readout(t) ==
    /\ tpc[t] = "readout"
    /\ Exit(t, "ok", [tloc[t] EXCEPT !.readout = self.readout])
    /\ UNCHANGED <<pc, self, last, ncalls, nbuild, emitted, nassign, norm>>

NextConc ==
    \E t \in Threads :
        \/ T_Prepare(t)
        \/ T_Check(t)
        \/ T_BuildConvs(t)
        \/ T_BuildReadout(t)
        \/ T_BuildEdgeDim(t)
        \/ T_BuildFlag(t)
        \/ T_Zeros(t)
        \/ T_Loop(t)
        \/ T_Readout(t)

SpecConc == InitConc /\ [][NextConc]_vars


\* ---- properties ----
SupportedKinds == {"gcn", "gat", "gatv2", "sage", "gin", "gine"}
IgnoringKinds == {"gat", "gatv2", "sage", "gin"}

\* __init__ has returned an instance
Constructed == pc \in {"idle", "returned"}

\* what the build assigns
Stack == <<self.built, self.convs, self.readout, self.edge_dim>>

\* the step is a forward call
ForwardStep == ncalls' = ncalls + 1

\* The last call was a forward call whose node width fits the layer stack:
\* the call built the stack itself, or its width is the first layer's.
FitsStack ==
    /\ last.op = "forward"
    /\ \/ last.build_ran
       \/ IsNone(self.convs)
       \/ Get(self.convs) = <<>>
       \/ last.data.x_w = Get(self.convs)[1].in_dim

\* C1: over any sequence of forward calls on one instance, _build_layers runs
\* in the first call that gets past input adaptation and in no later call, and
\* once it has run no later call changes the layer objects, the readout, the
\* inferred edge width or the built flag.
C1_BuildRunsExactlyOnce ==
    [][ForwardStep =>
          /\ nbuild = 0 /\ last'.outcome # "ValueError" => nbuild' = 1
          /\ nbuild >= 1 => nbuild' = nbuild /\ Stack' = Stack]_vars

\* C2: when forward calls race on an unbuilt instance, exactly one build
\* runs, self.convs is assigned once, and every call that completes has run
\* the layers and the readout of that one build.
C2_FirstBuildSerialized ==
    /\ nbuild <= 1
    /\ nassign <= 1
    /\ \A t \in Threads :
          tpc[t] = "done" /\ tloc[t].outcome = "ok" =>
              /\ tloc[t].convs = self.convs
              /\ tloc[t].readout = self.readout
              /\ Get(tloc[t].readout).gen = 1
              /\ \A i \in 1..Len(Get(tloc[t].convs)) : Get(tloc[t].convs)[i].gen = 1

\* C3: for gine under the fail policy, a forward call on a batch without
\* edge feature leaves the instance unbuilt (no flag, no layers, no edge
\* width), and a later forward call, on a batch with an [E,D] edge feature,
\* builds the stack and succeeds.  (An unbuilt gine instance that has been
\* called is one whose calls all failed for the missing edge feature.)
C3_FailedCallThenValidCall ==
    [][ForwardStep /\ self.conv_type = "gine" /\ self.gine_missing_edge_policy = "error"
           /\ ~self.built =>
          /\ IsNone(last'.data.edge_attr) =>
                /\ last'.outcome = "ValueError"
                /\ ~self'.built /\ IsNone(self'.convs) /\ IsNone(self'.edge_dim)
          /\ ncalls >= 1 /\ ~IsNone(last'.data.edge_attr)
                /\ Get(last'.data.edge_attr).ndim = 2 =>
                /\ last'.build_ran /\ self'.built
                /\ last'.outcome = "ok"]_vars

\* C4: for gine under the fail policy, every forward call on a batch without
\* edge feature raises the ValueError of input adaptation, before any build
\* and before any layer is called, whether the instance is built or not.
C4_MissingEdgeFeatureRaises ==
    last.op = "forward" /\ self.conv_type = "gine"
        /\ self.gine_missing_edge_policy = "error" /\ IsNone(last.data.edge_attr) =>
        /\ last.outcome = "ValueError"
        /\ ~last.build_ran
        /\ last.layer_inputs = <<>>

\* C4 witness: an instance built by an earlier valid call rejects a later
\* batch without edge feature.
C4_Witness ==
    /\ self.conv_type = "gine" /\ self.gine_missing_edge_policy = "error"
    /\ self.built /\ ~IsNone(self.convs) /\ Get(self.convs) # <<>>
    /\ last.op = "forward" /\ IsNone(last.data.edge_attr)
    /\ last.outcome = "ValueError"

\* the all-zero float tensor of shape [e, w]
Zeros(e, w) == Tensor(2, "float", w, [i \in 1..e |-> [j \in 1..w |-> R(0)]])

\* C5: for gine under the zeros policy, every forward call on a batch without
\* edge feature (and with a node width that fits the stack) succeeds, and
\* every layer is called with the all-zero edge feature of shape [E, W], W
\* the edge width fixed by the build.
C5_ZeroEdgeFeature ==
    FitsStack /\ self.conv_type = "gine" /\ self.gine_missing_edge_policy = "zeros"
        /\ IsNone(last.data.edge_attr) =>
        /\ last.outcome = "ok"
        /\ \A i \in 1..Len(last.layer_inputs) :
              last.layer_inputs[i].edge_attr = Some(Zeros(last.data.e, Get(self.edge_dim)))

\* C6: a conv_type outside the six supported kinds fails in the constructor:
\* every constructed instance has a supported kind.
C6_UnsupportedKindRejected ==
    Constructed => self.conv_type \in SupportedKinds

\* C7: an absent and an empty hidden-width list both fail in the constructor:
\* every constructed instance has a non-empty hidden_dims.
C7_HiddenDimsNonEmpty ==
    Constructed => self.hidden_dims # <<>>

\* C8: each one-time notice is emitted at most once per instance: a forward
\* call emits a notice exactly when it meets the notice's condition and no
\* earlier call has emitted it, so the notice is emitted in the first call
\* that meets the condition and in no later one, whatever the calls' outcomes.
C8_NoticesAtMostOnce ==
    [][ForwardStep =>
          \A c \in Notices :
              /\ c \in last'.notices <=> (c \in last'.conds /\ emitted[c] = 0)
              /\ emitted'[c] <= 1]_vars

\* C8 witness: a call meets the conditions of two notices that earlier
\* calls have already emitted, and emits neither again.
C8_Witness ==
    /\ last.op = "forward"
    /\ "edge_v_ignored" \in last.conds \ last.notices
    /\ emitted["edge_v_ignored"] = 1
    /\ \E c \in {"edge_attr_ignored", "edge_weight_failed"} :
          c \in last.conds \ last.notices /\ emitted[c] = 1

\* the weight _prepare_inputs must give a gcn layer for batch d
ExpectedWeight(d, mode) ==
    IF ~IsNone(d.edge_weight) THEN d.edge_weight
    ELSE IF IsNone(d.edge_attr) THEN None
    ELSE IF edge_weight_from_attr(Get(d.edge_attr), mode).raised THEN None
    ELSE Some(Float(edge_weight_from_attr(Get(d.edge_attr), mode).w))

\* C9: for gcn every layer is called with the batch's explicit edge_weight,
\* unchanged and without the normalizer being invoked, when the batch has
\* one; otherwise with the normalizer's result (cast to float) on edge_attr
\* when the batch has one; otherwise with no weight.  A normalizer failure
\* is not raised to the caller: the call goes on to the layers with no weight.
C9_GcnEdgeWeight ==
    last.op = "forward" /\ self.conv_type = "gcn" =>
        /\ \A i \in 1..Len(last.layer_inputs) :
              last.layer_inputs[i].edge_weight
                  = ExpectedWeight(last.data, self.gcn_edge_mode)
        /\ ~IsNone(last.data.edge_weight) => ~last.normalizer_ran
        /\ last.outcome \notin {"ValueError", "RuntimeError", "BuildError"}
        /\ self.hidden_dims # <<>> => last.layer_inputs # <<>>

\* C9 witness: the normalizer failed in a call, and the call completed with
\* every layer given no weight.
C9_Witness ==
    /\ last.op = "forward" /\ self.conv_type = "gcn"
    /\ "edge_weight_failed" \in last.conds
    /\ last.outcome = "ok"
    /\ Len(last.layer_inputs) = 2
    /\ \A i \in 1..Len(last.layer_inputs) : IsNone(last.layer_inputs[i].edge_weight)

\* C10: for gat, gatv2, sage and gin a forward call on a batch that carries
\* an edge feature (and a node width that fits the stack) succeeds, and in
\* every call no layer is called with an edge feature or an edge weight.
C10_EdgeInformationIgnored ==
    last.op = "forward" /\ self.conv_type \in IgnoringKinds =>
        /\ FitsStack /\ ~IsNone(last.data.edge_attr) => last.outcome = "ok"
        /\ \A i \in 1..Len(last.layer_inputs) :
              /\ IsNone(last.layer_inputs[i].edge_attr)
              /\ IsNone(last.layer_inputs[i].edge_weight)

\* the last dimension an edge feature has once it is two-dimensional:
\* its width, or 1 for a tensor of shape [E]
EdgeWidth(t) == IF t.ndim = 2 THEN t.width ELSE 1

\* C11: for gine, when the batch carries an edge feature (of the width the
\* stack was built with), every layer is called with that feature's values
\* as a two-dimensional tensor of the built edge width: a feature of shape
\* [E] arrives as [E,1].
C11_EdgeFeatureTwoDimensional ==
    last.op = "forward" /\ self.conv_type = "gine" /\ ~IsNone(last.data.edge_attr)
        /\ self.built /\ EdgeWidth(Get(last.data.edge_attr)) = Get(self.edge_dim) =>
        \A i \in 1..Len(last.layer_inputs) :
            /\ ~IsNone(last.layer_inputs[i].edge_attr)
            /\ Get(last.layer_inputs[i].edge_attr).ndim = 2
            /\ Get(last.layer_inputs[i].edge_attr).width = Get(self.edge_dim)
            /\ Get(last.layer_inputs[i].edge_attr).rows = Get(last.data.edge_attr).rows

\* the number of distinct graph-assignment indices of a batch, 1 without index
NumGraphs(d) ==
    IF IsNone(d.batch) THEN 1 ELSE Cardinality({Get(d.batch)[i] : i \in 1..d.n})

NormCalls == {norm[k] : k \in 1..Len(norm)}

\* the number of edges of an edge feature
NumEdges(t) == Len(t.rows)

\* a call on an [E,D] edge feature with D >= 2: the mode decides the weights
Wide(c) == c.edge_attr.ndim = 2 /\ c.edge_attr.width >= 2

\* the weights a call returned, in edge order
Weights(c) == Elems(c.res.w)

\* C13: in every mode and for every input shape the normalizer returns, for
\* a float edge feature of at least one edge, and whatever it returns is a
\* tensor of shape [E] with one weight per edge, every weight >= 0, negative
\* feature values included.
C13_WeightsNonNegative ==
    \A c \in NormCalls :
        /\ c.edge_attr.dtype = "float" /\ NumEdges(c.edge_attr) >= 1 => ~c.res.raised
        /\ ~c.res.raised =>
              /\ c.res.w.ndim = 1
              /\ NumEdges(c.res.w) = NumEdges(c.edge_attr)
              /\ \A i \in 1..NumEdges(c.res.w) : ~RLess(Weights(c)[i], R(0))

\* C13 witness: in mode first_inv an edge whose first column is negative got
\* weight 0, and an edge whose first column is positive a positive weight.
C13_Witness ==
    \E c \in NormCalls :
        /\ c.mode = "first_inv" /\ Wide(c) /\ ~c.res.raised
        /\ \E i, j \in 1..NumEdges(c.edge_attr) :
              /\ RLess(c.edge_attr.rows[i][1], R(0)) /\ Weights(c)[i] = R(0)
              /\ RLess(R(0), c.edge_attr.rows[j][1]) /\ RLess(R(0), Weights(c)[j])

\* 1 / (mean(r) + 1e-8) for a row r
MeanInv(r) == RDiv(R(1), RAdd(RDiv(SumSeq(r), R(Len(r))), eps))

\* C14 (as stated): in mode mean_inv the weight of every row r of every
\* input the normalizer accepts is exactly 1 / (mean(r) + 1e-8).
C14_MeanInvExact ==
    \A c \in NormCalls :
        c.mode = "mean_inv" /\ ~c.res.raised =>
            \A i \in 1..NumEdges(c.edge_attr) :
                Weights(c)[i] = MeanInv(c.edge_attr.rows[i])

\* C14 (amended): in mode mean_inv, for an input of shape [E,D] with D >= 2,
\* the weight of row r is 1 / (mean(r) + 1e-8) clamped at 0: exactly that
\* value when it is positive, and 0 when it is negative; an input of shape
\* [E] or [E,1] is returned as it is, clamped at 0.
C14_MeanInvClamped ==
    \A c \in NormCalls :
        c.mode = "mean_inv" /\ ~c.res.raised =>
            \A i \in 1..NumEdges(c.edge_attr) :
                LET r == c.edge_attr.rows[i]
                IN  /\ Wide(c) /\ ~RLess(MeanInv(r), R(0)) => Weights(c)[i] = MeanInv(r)
                    /\ Wide(c) /\ RLess(MeanInv(r), R(0)) => Weights(c)[i] = R(0)
                    /\ ~Wide(c) => Weights(c)[i] = (IF RLess(r[1], R(0)) THEN R(0) ELSE r[1])

\* C14 witness: a mean_inv call on an [E,D] input, D >= 2, gave one row of
\* positive mean its exact inverse and one row of negative mean the weight 0.
C14_Witness ==
    \E c \in NormCalls :
        /\ c.mode = "mean_inv" /\ Wide(c) /\ ~c.res.raised
        /\ \E i, j \in 1..NumEdges(c.edge_attr) :
              /\ Weights(c)[i] = MeanInv(c.edge_attr.rows[i]) /\ RLess(R(0), Weights(c)[i])
              /\ RLess(MeanInv(c.edge_attr.rows[j]), R(0)) /\ Weights(c)[j] = R(0)

\* an edge feature whose rows are identical across all edges
ConstantValued(t) == \A i, j \in 1..NumEdges(t) : t.rows[i] = t.rows[j]

\* C15 (as stated): in mode auto a constant-valued edge feature yields weight
\* 1 for every edge, for every input shape ([E], [E,1] and [E,D]).
C15_AutoConstantOnes ==
    \A c \in NormCalls :
        c.mode = "auto" /\ ConstantValued(c.edge_attr) /\ ~c.res.raised =>
            \A i \in 1..NumEdges(c.edge_attr) : Weights(c)[i] = R(1)

\* C15 (amended): in mode auto a constant-valued float edge feature of shape
\* [E,D] with D >= 2 and E >= 1 yields weight 1 for every edge; one of shape
\* [E] or [E,1] yields its own values clamped at 0.
C15_AutoConstantWide ==
    \A c \in NormCalls :
        c.mode = "auto" /\ ConstantValued(c.edge_attr)
            /\ c.edge_attr.dtype = "float" /\ NumEdges(c.edge_attr) >= 1 =>
            /\ ~c.res.raised
            /\ \A i \in 1..NumEdges(c.edge_attr) :
                  Weights(c)[i] = IF Wide(c) THEN R(1)
                                  ELSE IF RLess(c.edge_attr.rows[i][1], R(0)) THEN R(0)
                                  ELSE c.edge_attr.rows[i][1]

\* C15 witness: an auto call on several identical rows of negative values
\* returned weight 1 for each.
C15_Witness ==
    \E c \in NormCalls :
        /\ c.mode = "auto" /\ Wide(c) /\ ~c.res.raised
        /\ NumEdges(c.edge_attr) >= 2 /\ ConstantValued(c.edge_attr)
        /\ RLess(c.edge_attr.rows[1][1], R(0))
        /\ \A i \in 1..NumEdges(c.edge_attr) : Weights(c)[i] = R(1)

\* the edges two calls gave the same row
SameRowEdges(c, d) ==
    {i \in 1..NumEdges(c.edge_attr) :
        i <= NumEdges(d.edge_attr) /\ c.edge_attr.rows[i] = d.edge_attr.rows[i]}

\* The weight of an edge is a function of its own row in call c: no call of
\* the same mode and kind of input gives an edge with the same row another
\* weight.
OwnRowOnly(c) ==
    \A d \in NormCalls :
        d.mode = c.mode /\ ~d.res.raised /\ d.edge_attr.ndim = c.edge_attr.ndim
            /\ d.edge_attr.width = c.edge_attr.width =>
            \A i \in SameRowEdges(c, d) : Weights(c)[i] = Weights(d)[i]

\* two [2,2] edge features whose second rows are equal, and their auto weights
AutoPairs ==
    {<<a, b>> \in NormFloats(2, 2, 2) \X NormFloats(2, 2, 2) : a.rows[2] = b.rows[2]}

\* in mode auto the weight of an edge with an unchanged row changes with
\* the other edge of the call
AutoDependsOnOthers ==
    \E p \in AutoPairs :
        Elems(edge_weight_from_attr(p[1], "auto").w)[2]
            # Elems(edge_weight_from_attr(p[2], "auto").w)[2]

\* C20: in modes first_inv and mean_inv, and for inputs of shape [E] or
\* [E,1] in every mode, two calls that give an edge the same row give it the
\* same weight, whatever the other edges carry; in mode auto on [E,D] inputs
\* with D >= 2 there are calls that give an edge with the same row
\* different weights.
C20_WeightDependsOnOwnRow ==
    /\ \A c \in NormCalls :
          ~c.res.raised /\ (c.mode \in {"first_inv", "mean_inv"} \/ ~Wide(c)) => OwnRowOnly(c)
    /\ AutoDependsOnOthers

\* C20 witness: two mean_inv calls on [E,D] inputs, D >= 2, share an edge's
\* row and differ in another edge; the shared edge has the same positive
\* weight in both.
C20_Witness ==
    /\ Len(norm) = 2
    /\ norm[1].mode = "mean_inv" /\ Wide(norm[1]) /\ ~norm[1].res.raised /\ ~norm[2].res.raised
    /\ \E i \in SameRowEdges(norm[1], norm[2]) :
          /\ Weights(norm[1])[i] = Weights(norm[2])[i]
          /\ RLess(R(0), Weights(norm[1])[i])
          /\ \E j \in 1..NumEdges(norm[1].edge_attr) :
                j <= NumEdges(norm[2].edge_attr)
                    /\ RowMeans(norm[1].edge_attr)[j] # RowMeans(norm[2].edge_attr)[j]

\* C16: an edge-weight derivation mode outside {auto, mean_inv, first_inv}
\* and a missing-edge-feature policy outside {error, zeros} fail in the
\* constructor: every constructed instance holds recognized values.
C16_OptionsValidated ==
    Constructed =>
        /\ self.gcn_edge_mode \in EdgeModes
        /\ self.gine_missing_edge_policy \in MissingPolicies

\* the layers a built instance holds
Convs == Get(self.convs)

\* C17: the build creates len(hidden) layers in order, layer 1 taking the
\* node width of the building call, layer i > 1 the width hidden[i-1], layer
\* i producing hidden[i], and a readout from sum(hidden) to out_dim; a
\* forward call that returns has run these layers in that order, each on the
\* width the layer before it produced, and concatenated one output per
\* layer into a representation of width sum(hidden).
C17_WidthsChained ==
    /\ Constructed /\ self.built =>
          /\ Len(Convs) = Len(self.hidden_dims)
          /\ \A i \in 1..Len(Convs) :
                /\ Convs[i].out_dim = self.hidden_dims[i]
                /\ i > 1 => Convs[i].in_dim = self.hidden_dims[i - 1]
          /\ last.build_ran /\ Convs # <<>> => Convs[1].in_dim = last.data.x_w
          /\ Get(self.readout).in_features = SumInts(self.hidden_dims)
          /\ Get(self.readout).out_features = self.out_dim
    /\ last.op = "forward" /\ last.outcome = "ok" =>
          /\ Len(last.layer_inputs) = Len(self.hidden_dims)
          /\ \A i \in 1..Len(last.layer_inputs) :
                /\ last.layer_inputs[i].layer = Convs[i]
                /\ last.layer_inputs[i].x_w
                       = (IF i = 1 THEN last.data.x_w ELSE self.hidden_dims[i - 1])
          /\ last.n_outs = Len(self.hidden_dims)
          /\ last.cat_w = SumInts(self.hidden_dims)

\* C17 witness: a call after the building call ran a stack of two layers of
\* different widths and concatenated both outputs.
C17_Witness ==
    /\ last.op = "forward" /\ last.outcome = "ok" /\ ~last.build_ran
    /\ self.hidden_dims = <<1, MaxWidth>>
    /\ Len(last.layer_inputs) = 2
    /\ last.layer_inputs[2].x_w = 1
    /\ last.cat_w = 1 + MaxWidth

\* C18: no forward call ends in the RuntimeError of line 214.  For gine
\* without edge feature under a policy other than zeros the ValueError of
\* input adaptation comes first, on an unbuilt instance as on a built one,
\* so a build is only ever run for gine with an edge feature present or
\* under the zeros policy.
C18_BuildFailureBranchUnreachable ==
    last.op = "forward" =>
        /\ last.outcome # "RuntimeError"
        /\ self.conv_type = "gine" /\ IsNone(last.data.edge_attr)
              /\ self.gine_missing_edge_policy # "zeros" =>
              last.outcome = "ValueError" /\ ~last.build_ran
        /\ self.conv_type = "gine" /\ last.build_ran =>
              ~IsNone(last.data.edge_attr) \/ self.gine_missing_edge_policy = "zeros"

\* C18 witness: the very first call on a gine instance under the fail policy
\* had no edge feature and raised the ValueError, leaving the instance unbuilt.
C18_Witness ==
    /\ last.op = "forward" /\ ncalls = 1 /\ nbuild = 0
    /\ self.conv_type = "gine" /\ self.gine_missing_edge_policy = "error"
    /\ IsNone(last.data.edge_attr)
    /\ last.outcome = "ValueError"
    /\ ~self.built

\* C19: on a built instance the stack of len(hidden) layers, the readout and
\* the edge width are all assigned, the edge width an integer >= 1 for gine
\* and none for every other kind; on an unbuilt instance none of them is.  A
\* build in which a layer constructor raises leaves the instance unbuilt, and
\* layers are only ever run on a built instance.
C19_BuiltMeansComplete ==
    Constructed =>
        /\ self.built =>
              /\ ~IsNone(self.convs) /\ Len(Convs) = Len(self.hidden_dims)
              /\ ~IsNone(self.readout)
              /\ self.conv_type = "gine" => ~IsNone(self.edge_dim) /\ Get(self.edge_dim) >= 1
              /\ self.conv_type # "gine" => IsNone(self.edge_dim)
        /\ ~self.built =>
              IsNone(self.convs) /\ IsNone(self.readout) /\ IsNone(self.edge_dim)
        /\ last.outcome = "BuildError" => last.build_ran /\ ~self.built
        /\ last.layer_inputs # <<>> => self.built

\* C19 witness: a second call ran the build again after the first call's
\* build had failed, failed in it too, and left the instance without stack.
C19_Witness ==
    /\ last.op = "forward" /\ last.outcome = "BuildError"
    /\ ncalls = 2 /\ nbuild = 2
    /\ ~self.built /\ IsNone(self.convs)

====
